---- MODULE Spec2Model ----
(***************************************************************************)
(* A model of the CHIP-8 interpreter of joeygibson/chip-8: the machine     *)
(* state of src/src/lib.rs (struct Chip8), its operations (new,            *)
(* load_program, execute_cycle, process_opcode, update_timers) and the     *)
(* embedding program of src/src/main.rs (run_loop, process_input,          *)
(* draw_graphics).  A Rust panic is modelled by the field chip8.panic: the *)
(* process is dead once it is not "none".                                  *)
(***************************************************************************)
EXTENDS Integers, Sequences, FiniteSets, TLC

\* ------------------------------------------------------------ constants
MEMORY_SIZE == 4096
LOWER_MEMORY_BOUNDARY == 512
GRAPHICS_COLUMNS == 64
GRAPHICS_ROWS == 32
GRAPHICS_ARRAY_SIZE == GRAPHICS_COLUMNS * GRAPHICS_ROWS
STACK_SIZE == 16
KEYBOARD_ARRAY_SIZE == 16
REGISTERS == 16
\* the number of font bytes Chip8::new copies (for i in 0..79)
FONT_BYTES_LOADED == 79

\* one past the largest value of the unsigned types
U8 == 2^8
U16 == 2^16

\* -------------------------------------------------------------- bounds
\* the longest program image, in instruction words
MaxProgLen == 3
\* the longest program image of the runs that draw
MaxDrawLen == 4
\* the most arithmetic instructions after the two that set the operands
MaxArithLen == 2
\* the cycles of the runs that loop: 241 additions of 0xFF carry the index past 0xFFFF
MaxLongRun == 490
\* the number of execute_cycle calls run_loop makes before the model stops:
\* in the runs that nest calls to the depth of the stack, and in the others
MaxIterations == 18
MaxShortRun == 5
\* the keypad keys 0 .. NumKeys-1 are the ones the user presses
NumKeys == 2

\* ------------------------------------------------------ bit operations
RECURSIVE BitAnd(_, _)
BitAnd(a, b) ==
    IF a = 0 \/ b = 0 THEN 0
    ELSE (a % 2) * (b % 2) + 2 * BitAnd(a \div 2, b \div 2)

RECURSIVE BitOr(_, _)
BitOr(a, b) ==
    IF a = 0 THEN b
    ELSE IF b = 0 THEN a
    ELSE (IF a % 2 = 1 \/ b % 2 = 1 THEN 1 ELSE 0) + 2 * BitOr(a \div 2, b \div 2)

RECURSIVE BitXor(_, _)
BitXor(a, b) ==
    IF a = 0 THEN b
    ELSE IF b = 0 THEN a
    ELSE ((a + b) % 2) + 2 * BitXor(a \div 2, b \div 2)

Shr(a, k) == a \div (2^k)

\* ------------------------------------------------------------ the font
CHIP8_FONTSET ==
    << 240, 144, 144, 144, 240,    \* 0
       32, 96, 32, 32, 112,        \* 1
       240, 16, 240, 128, 240,     \* 2
       240, 16, 240, 16, 240,      \* 3
       144, 144, 240, 16, 16,      \* 4
       240, 128, 240, 16, 240,     \* 5
       240, 128, 240, 144, 240,    \* 6
       240, 16, 32, 64, 64,        \* 7
       240, 144, 240, 144, 240,    \* 8
       240, 144, 240, 16, 240,     \* 9
       240, 144, 240, 144, 144,    \* A
       224, 144, 224, 144, 224,    \* B
       240, 128, 128, 128, 240,    \* C
       224, 144, 144, 144, 224,    \* D
       240, 128, 240, 128, 240,    \* E
       240, 128, 240, 128, 128 >>  \* F

\* KEY_MAP[k + 1] is the character that sets key latch k
KEY_MAP ==
    << "x", "1", "2", "3", "q", "w", "e", "a",
       "s", "d", "z", "c", "4", "r", "f", "v" >>

ESC == "esc"

\* ------------------------------------------------------- machine state
VARIABLES
    chip8,      \* the Chip8 value main owns, with the field panic
    screen,     \* the display cells the terminal shows as '*'
    mainpc,     \* where main is: "load", "run" or "exit"
    iteration,  \* run_loop's iteration counter
    limit,      \* the number of iterations the run is followed for
    rom,        \* the program image main loads (bytes)
    keyboard,   \* the characters the user types during the run
    last,       \* history: what the last execute_cycle call fetched and saw
    calls,      \* history: the calls not yet returned from, innermost last
    written     \* history: the last value written to each timer, and when

vars == <<chip8, screen, mainpc, iteration, limit, rom, keyboard, last, calls, written>>

\* The display gfx: [u8; GRAPHICS_ARRAY_SIZE] holds only 0 and 1 (cells are
\* set to 0 and XORed with 1, nothing else); it is held as the set of the
\* indices of the cells that are 1.  Cell(gfx, p) is gfx[p].
BlankDisplay == {}
\* faulty variant: a cell that is only ever set
SetCell_OnlySet(gfx, p, b) == gfx \cup {p}
Cell(gfx, p) == IF p \in gfx THEN 1 ELSE 0
SetCell(gfx, p, b) == IF b = 1 THEN gfx \cup {p} ELSE gfx \ {p}

\* Chip8::new
Chip8New ==
    [ memory      |-> [a \in 0 .. MEMORY_SIZE - 1 |->
                         IF a < FONT_BYTES_LOADED THEN CHIP8_FONTSET[a + 1] ELSE 0],
      v           |-> [r \in 0 .. REGISTERS - 1 |-> 0],
      i           |-> 0,
      pc          |-> \h200,
      gfx         |-> BlankDisplay,
      delay_timer |-> 0,
      sound_timer |-> 0,
      stack       |-> [s \in 0 .. STACK_SIZE - 1 |-> 0],
      sp          |-> 0,
      key         |-> [k \in 0 .. KEYBOARD_ARRAY_SIZE - 1 |-> 0],
      draw_flag   |-> FALSE,
      panic       |-> "none" ]

Panic(m, why) == [m EXCEPT !.panic = why]

\* faulty variant: an image that fills memory exactly is refused
load_program_Strict(m, program) ==
    IF Len(program) + LOWER_MEMORY_BOUNDARY >= MEMORY_SIZE
    THEN [err |-> TRUE, m |-> m]
    ELSE [err |-> FALSE,
          m   |-> [m EXCEPT !.memory =
                     [a \in 0 .. MEMORY_SIZE - 1 |->
                        IF a >= 512 /\ a - 512 < Len(program)
                        THEN program[a - 512 + 1] ELSE m.memory[a]]]]

\* Chip8::load_program: the error, or the machine with the image copied in
load_program(m, program) ==
    IF Len(program) + LOWER_MEMORY_BOUNDARY > MEMORY_SIZE
    THEN [err |-> TRUE, m |-> m]
    ELSE [err |-> FALSE,
          m   |-> [m EXCEPT !.memory =
                     [a \in 0 .. MEMORY_SIZE - 1 |->
                        IF a >= 512 /\ a - 512 < Len(program)
                        THEN program[a - 512 + 1] ELSE m.memory[a]]]]

\* read_word: a panic (index out of bounds) or the big-endian word
read_word(memory, index) ==
    IF index >= MEMORY_SIZE \/ (index + 1) % U16 >= MEMORY_SIZE
    THEN [panic |-> "index out of bounds", word |-> 0]
    ELSE [panic |-> "none",
          word  |-> BitOr(memory[index] * 256, memory[(index + 1) % U16])]

\* ------------------------------------------------------ faulty variants
\* Variants of the operations below, each with one fault; a property that
\* holds of an operation fails of its variant.
\* a call that wraps the stack index instead of stopping
CallSubroutine_Wrapping(m, nnn, oc) ==
    [m EXCEPT !.stack[m.sp % STACK_SIZE] = m.pc, !.sp = (m.sp + 1) % U8, !.pc = nnn]

\* a return that resumes at the call site itself
ReturnFromSubroutine_NoAdvance(m, oc) ==
    IF m.sp = 0 /\ oc THEN Panic(m, "overflow")
    ELSE LET m1 == [m EXCEPT !.sp = (m.sp - 1) % U8]
         IN  IF m1.sp >= STACK_SIZE THEN Panic(m1, "index out of bounds")
             ELSE [m1 EXCEPT !.pc = m1.stack[m1.sp]]

\* timers that are decremented without the test for zero
update_timers_Wrapping(m) ==
    [m EXCEPT !.delay_timer = (m.delay_timer - 1) % U8,
              !.sound_timer = (m.sound_timer - 1) % U8]

\* Chip8::update_timers
update_timers(m) ==
    LET m1 == IF m.delay_timer > 0
              THEN [m EXCEPT !.delay_timer = m.delay_timer - 1] ELSE m
    IN  IF m1.sound_timer > 0
        THEN [m1 EXCEPT !.sound_timer = m1.sound_timer - 1] ELSE m1

\* self.pc += k on a u16; oc: the build checks arithmetic overflow
AdvancePc(m, k, oc) ==
    IF m.pc + k >= U16
    THEN IF oc THEN Panic(m, "overflow") ELSE [m EXCEPT !.pc = (m.pc + k) % U16]
    ELSE [m EXCEPT !.pc = m.pc + k]

\* ------------------------------------------------------ opcode handlers
\* 0x0000, low nibble 0: clear the screen
ClearScreen(m, oc) ==
    AdvancePc([m EXCEPT !.gfx = BlankDisplay, !.draw_flag = TRUE], 2, oc)

\* 0x0000, low nibble E: return from a subroutine
ReturnFromSubroutine(m, oc) ==
    IF m.sp = 0 /\ oc THEN Panic(m, "overflow")
    ELSE LET m1 == [m EXCEPT !.sp = (m.sp - 1) % U8]
         IN  IF m1.sp >= STACK_SIZE THEN Panic(m1, "index out of bounds")
             ELSE AdvancePc([m1 EXCEPT !.pc = m1.stack[m1.sp]], 2, oc)

\* 0x2NNN: call the subroutine at NNN
CallSubroutine(m, nnn, oc) ==
    IF m.sp >= STACK_SIZE THEN Panic(m, "index out of bounds")
    ELSE LET m1 == [m EXCEPT !.stack[m.sp] = m.pc]
         IN  IF m1.sp + 1 >= U8 /\ oc THEN Panic(m1, "overflow")
             ELSE [m1 EXCEPT !.sp = (m1.sp + 1) % U8, !.pc = nnn]

\* faulty variant: a skip that does not look at its condition
Skip_Always(m, cond, oc) == AdvancePc(m, 4, oc)

\* the skips 3XNN, 4XNN, 5XY0, 9XY0: pc += 4 or pc += 2
Skip(m, cond, oc) == AdvancePc(m, IF cond THEN 4 ELSE 2, oc)

\* faulty variant: a sum of exactly 255 counts as a carry
AddVy_CarryAt255(m, x, y, oc) ==
    LET m1 == [m EXCEPT !.v[15] = IF m.v[y] >= \hFF - m.v[x] THEN 1 ELSE 0]
    IN  AdvancePc([m1 EXCEPT !.v[x] = BitAnd(m1.v[x] + m1.v[y], \hFF)], 2, oc)

\* 0x8XY4: add VY to VX, VF the carry
AddVy(m, x, y, oc) ==
    LET m1 == [m EXCEPT !.v[15] = IF m.v[y] > \hFF - m.v[x] THEN 1 ELSE 0]
    IN  AdvancePc([m1 EXCEPT !.v[x] = BitAnd(m1.v[x] + m1.v[y], \hFF)], 2, oc)

\* faulty variant: equal operands count as a borrow
SubtractVy_BorrowOnEqual(m, x, y, oc) ==
    LET m1 == [m EXCEPT !.v[15] = IF m.v[y] >= m.v[x] THEN 0 ELSE 1]
        tx == m1.v[x]
        ty == m1.v[y]
        tz == IF ty > tx THEN (ty - tx) - 1 ELSE tx - ty
    IN  AdvancePc([m1 EXCEPT !.v[x] = tz], 2, oc)

\* 0x8XY5: subtract VY from VX, VF the absence of a borrow
SubtractVy(m, x, y, oc) ==
    LET m1 == [m EXCEPT !.v[15] = IF m.v[y] > m.v[x] THEN 0 ELSE 1]
        tx == m1.v[x]
        ty == m1.v[y]
        tz == IF ty > tx THEN (ty - tx) - 1 ELSE tx - ty
    IN  AdvancePc([m1 EXCEPT !.v[x] = tz], 2, oc)

\* faulty variant: VF is taken after the shift
ShiftRight_FlagAfter(m, x, oc) ==
    LET m1 == [m EXCEPT !.v[x] = Shr(m.v[x], 1)]
    IN  AdvancePc([m1 EXCEPT !.v[15] = BitAnd(m1.v[x], 1)], 2, oc)

\* 0x8XY6: VF the least significant bit of VX, VX shifted right by 1
ShiftRight(m, x, oc) ==
    LET m1 == [m EXCEPT !.v[15] = BitAnd(m.v[x], 1)]
    IN  AdvancePc([m1 EXCEPT !.v[x] = Shr(m1.v[x], 1)], 2, oc)

\* 0x8XYE: VF the most significant bit of VX, VX shifted left by 1
ShiftLeft(m, x, oc) ==
    LET m1 == [m EXCEPT !.v[15] = Shr(m.v[x], 7)]
    IN  AdvancePc([m1 EXCEPT !.v[x] = (m1.v[x] * 2) % U8], 2, oc)

\* 0x8XYn
Arithmetic(m, x, y, vx, vy, n, oc) ==
    CASE n = 0 -> AdvancePc([m EXCEPT !.v[x] = m.v[y]], 2, oc)
      [] n = 1 -> AdvancePc([m EXCEPT !.v[x] = BitOr(m.v[x], m.v[y])], 2, oc)
      [] n = 2 -> AdvancePc([m EXCEPT !.v[x] = BitAnd(m.v[x], m.v[y])], 2, oc)
      [] n = 3 -> AdvancePc([m EXCEPT !.v[x] = BitXor(m.v[x], m.v[y])], 2, oc)
      [] n = 4 -> AddVy(m, x, y, oc)
      [] n = 5 -> SubtractVy(m, x, y, oc)
      [] n = 6 -> ShiftRight(m, x, oc)
      [] n = 7 ->
            LET m1 == [m EXCEPT !.v[15] = IF vx > vy THEN 0 ELSE 1]
                tz == IF vx > vy THEN (vx - vy) - 1 ELSE vy - vx
            IN  AdvancePc([m1 EXCEPT !.v[x] = tz], 2, oc)
      [] n = \hE -> ShiftLeft(m, x, oc)
      [] OTHER -> Panic(m, "unknown 0x8000 opcode")

RECURSIVE DrawBits(_, _, _, _, _, _)
\* faulty variant: sprite bits past the right or bottom edge are dropped
DrawBits_Clip(m, pixel, vx, vy, yline, xline) ==
    IF xline = 8 \/ m.panic # "none" THEN m
    ELSE IF BitAnd(pixel, Shr(\h80, xline)) # 0
            /\ vx + xline < GRAPHICS_COLUMNS /\ vy + yline < GRAPHICS_ROWS
         THEN LET pixel_index == (vy + yline) * GRAPHICS_COLUMNS + vx + xline
                  m1 == IF Cell(m.gfx, pixel_index) = 1
                        THEN [m EXCEPT !.v[15] = 1] ELSE m
              IN  DrawBits([m1 EXCEPT !.gfx = SetCell(m1.gfx, pixel_index,
                                         BitXor(Cell(m1.gfx, pixel_index), 1))],
                           pixel, vx, vy, yline, xline + 1)
         ELSE DrawBits(m, pixel, vx, vy, yline, xline + 1)

\* 0xDXYN, the inner loop: the 8 bits of one sprite row
DrawBits(m, pixel, vx, vy, yline, xline) ==
    IF xline = 8 \/ m.panic # "none" THEN m
    ELSE IF BitAnd(pixel, Shr(\h80, xline)) # 0
         THEN LET x_coord == ((vx + xline) % U16) % GRAPHICS_COLUMNS
                  y_coord == ((vy + yline) % U16) % GRAPHICS_ROWS
                  pixel_index == y_coord * GRAPHICS_COLUMNS + x_coord
                  m1 == IF Cell(m.gfx, pixel_index) = 1
                        THEN [m EXCEPT !.v[15] = 1] ELSE m
                  m2 == [m1 EXCEPT !.gfx = SetCell(m1.gfx, pixel_index,
                                             BitXor(Cell(m1.gfx, pixel_index), 1))]
              IN  IF pixel_index >= GRAPHICS_ARRAY_SIZE
                  THEN Panic(m, "index out of bounds")
                  ELSE DrawBits(m2, pixel, vx, vy, yline, xline + 1)
         ELSE DrawBits(m, pixel, vx, vy, yline, xline + 1)

\* 0xDXYN, the outer loop: the sprite rows memory[i + yline]
RECURSIVE DrawRows(_, _, _, _, _, _)
DrawRows(m, vx, vy, yline, height, oc) ==
    IF yline = height THEN m
    ELSE IF m.i + yline >= U16 /\ oc THEN Panic(m, "overflow")
    ELSE LET addr == (m.i + yline) % U16
         IN  IF addr >= MEMORY_SIZE THEN Panic(m, "index out of bounds")
             ELSE LET m1 == DrawBits(m, m.memory[addr], vx, vy, yline, 0)
                  IN  IF m1.panic # "none" THEN m1
                      ELSE DrawRows(m1, vx, vy, yline + 1, height, oc)

\* faulty variant: a draw that leaves the draw flag as it was
DrawSprite_NoFlag(m, vx, vy, n, oc) ==
    LET m1 == DrawRows([m EXCEPT !.v[15] = 0], vx, vy, 0, n, oc)
    IN  IF m1.panic # "none" THEN m1 ELSE AdvancePc(m1, 2, oc)

\* faulty variant: a draw that does not reset VF first
DrawSprite_KeepVF(m, vx, vy, n, oc) ==
    LET m1 == DrawRows(m, vx, vy, 0, n, oc)
    IN  IF m1.panic # "none" THEN m1
        ELSE AdvancePc([m1 EXCEPT !.draw_flag = TRUE], 2, oc)

\* 0xDXYN: draw a sprite
DrawSprite(m, vx, vy, n, oc) ==
    LET m1 == DrawRows([m EXCEPT !.v[15] = 0], vx, vy, 0, n, oc)
    IN  IF m1.panic # "none" THEN m1
        ELSE AdvancePc([m1 EXCEPT !.draw_flag = TRUE], 2, oc)

\* faulty variant: the key skips leave the latch they test as it is
KeySkip_NoConsume(m, vx, nn, oc) ==
    IF nn \notin {\h9E, \hA1} THEN Panic(m, "unknown 0xE000 opcode")
    ELSE IF vx >= KEYBOARD_ARRAY_SIZE THEN Panic(m, "index out of bounds")
    ELSE AdvancePc(m, IF (m.key[vx] # 0) = (nn = \h9E) THEN 4 ELSE 2, oc)

\* 0xEX9E and 0xEXA1
KeySkip(m, vx, nn, oc) ==
    CASE nn = \h9E ->
            IF vx >= KEYBOARD_ARRAY_SIZE THEN Panic(m, "index out of bounds")
            ELSE IF m.key[vx] # 0
                 THEN AdvancePc([m EXCEPT !.key[vx] = 0], 4, oc)
                 ELSE AdvancePc(m, 2, oc)
      [] nn = \hA1 ->
            IF vx >= KEYBOARD_ARRAY_SIZE THEN Panic(m, "index out of bounds")
            ELSE IF m.key[vx] = 0
                 THEN AdvancePc(m, 4, oc)
                 ELSE AdvancePc([m EXCEPT !.key[vx] = 0], 2, oc)
      [] OTHER -> Panic(m, "unknown 0xE000 opcode")

\* 0xFX0A, the loop over the 16 key latches: [m, key_pressed]
RECURSIVE WaitKeyLoop(_, _, _, _)
WaitKeyLoop(m, x, i, key_pressed) ==
    IF i = 16 THEN [m |-> m, key_pressed |-> key_pressed]
    ELSE IF m.key[i] # 0
         THEN WaitKeyLoop([m EXCEPT !.v[x] = i], x, i + 1, TRUE)
         ELSE WaitKeyLoop(m, x, i + 1, key_pressed)

\* faulty variant: FX0A that goes on without a key
WaitKey_NoWait(m, x, oc) == AdvancePc(WaitKeyLoop(m, x, 0, FALSE).m, 2, oc)

\* 0xFX0A: await a key press
WaitKey(m, x, oc) ==
    LET r == WaitKeyLoop(m, x, 0, FALSE)
    IN  IF ~r.key_pressed THEN r.m ELSE AdvancePc(r.m, 2, oc)

\* 0xFX1E: add VX to I
AddToIndex(m, x, oc) ==
    IF m.i + m.v[x] >= U16 /\ oc THEN Panic(m, "overflow")
    ELSE LET m1 == [m EXCEPT !.v[15] = IF (m.i + m.v[x]) % U16 > \hFFF THEN 1 ELSE 0]
         IN  IF m1.i + m1.v[x] >= U16 /\ oc THEN Panic(m1, "overflow")
             ELSE AdvancePc([m1 EXCEPT !.i = (m1.i + m1.v[x]) % U16], 2, oc)

\* 0xFX29: the address of the font sprite of VX
FontSprite(m, x, oc) ==
    IF m.v[x] * 5 >= U8 /\ oc THEN Panic(m, "overflow")
    ELSE AdvancePc([m EXCEPT !.i = (m.v[x] * 5) % U8], 2, oc)

\* one store memory[(self.i + k) as usize] = b
StoreAt(m, k, b, oc) ==
    IF m.panic # "none" THEN m
    ELSE IF m.i + k >= U16 /\ oc THEN Panic(m, "overflow")
    ELSE LET addr == (m.i + k) % U16
         IN  IF addr >= MEMORY_SIZE THEN Panic(m, "index out of bounds")
             ELSE [m EXCEPT !.memory[addr] = b]

\* faulty variant: the tens digit is not reduced modulo 10
StoreBcd_TensNotReduced(m, x, oc) ==
    LET m1 == StoreAt(m, 0, m.v[x] \div 100, oc)
        m2 == StoreAt(m1, 1, m.v[x] \div 10, oc)
        m3 == StoreAt(m2, 2, m.v[x] % 10, oc)
    IN  IF m3.panic # "none" THEN m3 ELSE AdvancePc(m3, 2, oc)

\* 0xFX33: binary-coded decimal of VX
StoreBcd(m, x, oc) ==
    LET m1 == StoreAt(m, 0, m.v[x] \div 100, oc)
        m2 == StoreAt(m1, 1, (m.v[x] \div 10) % 10, oc)
        m3 == StoreAt(m2, 2, m.v[x] % 10, oc)
    IN  IF m3.panic # "none" THEN m3 ELSE AdvancePc(m3, 2, oc)

\* 0xFX55: for i in 0..x, memory[I + i] = V[i]
RECURSIVE StoreRegisters(_, _, _, _)
\* faulty variant: the copy includes V[x]
StoreRegisters_Inclusive(m, x, i, oc) ==
    IF i > x THEN AdvancePc(m, 2, oc)
    ELSE LET m1 == StoreAt(m, i, m.v[i], oc)
         IN  IF m1.panic # "none" THEN m1 ELSE StoreRegisters(m1, x, i + 1, oc)

StoreRegisters(m, x, i, oc) ==
    IF i >= x THEN AdvancePc(m, 2, oc)
    ELSE LET m1 == StoreAt(m, i, m.v[i], oc)
         IN  IF m1.panic # "none" THEN m1 ELSE StoreRegisters(m1, x, i + 1, oc)

\* 0xFX65: for i in 0..x, V[i] = memory[I + i]
RECURSIVE LoadRegisters(_, _, _, _)
LoadRegisters(m, x, i, oc) ==
    IF i >= x THEN AdvancePc(m, 2, oc)
    ELSE IF m.i + i >= U16 /\ oc THEN Panic(m, "overflow")
    ELSE LET addr == (m.i + i) % U16
         IN  IF addr >= MEMORY_SIZE THEN Panic(m, "index out of bounds")
             ELSE LoadRegisters([m EXCEPT !.v[i] = m.memory[addr]], x, i + 1, oc)

\* 0xFXnn
Misc(m, x, nn, oc) ==
    CASE nn = \h07 -> AdvancePc([m EXCEPT !.v[x] = m.delay_timer], 2, oc)
      [] nn = \h0A -> WaitKey(m, x, oc)
      [] nn = \h15 -> AdvancePc([m EXCEPT !.delay_timer = m.v[x]], 2, oc)
      [] nn = \h18 -> AdvancePc([m EXCEPT !.sound_timer = m.v[x]], 2, oc)
      [] nn = \h1E -> AddToIndex(m, x, oc)
      [] nn = \h29 -> FontSprite(m, x, oc)
      [] nn = \h33 -> StoreBcd(m, x, oc)
      [] nn = \h55 -> StoreRegisters(m, x, 0, oc)
      [] nn = \h65 -> LoadRegisters(m, x, 0, oc)
      [] OTHER -> Panic(m, "unknown 0xF000 opcode")

\* the operand fields process_opcode decodes from the instruction word
DecodeX(opcode) == Shr(BitAnd(opcode, \h0F00), 8)
DecodeY(opcode) == Shr(BitAnd(opcode, \h00F0), 4)
DecodeNNN(opcode) == BitAnd(opcode, \h0FFF)
DecodeNN(opcode) == BitAnd(opcode, \h00FF)
DecodeN(opcode) == BitAnd(opcode, \h000F)
Family(opcode) == BitAnd(opcode, \hF000)

\* Chip8::process_opcode; r: the random byte, oc: overflow checks are on
process_opcode(m, opcode, r, oc) ==
    LET x == DecodeX(opcode)
        y == DecodeY(opcode)
        vx == m.v[x]
        vy == m.v[y]
        nnn == DecodeNNN(opcode)
        nn == DecodeNN(opcode)
        n == DecodeN(opcode)
        family == Family(opcode)
    IN  CASE family = \h0000 ->
               ( CASE BitAnd(opcode, \h000F) = \h0 -> ClearScreen(m, oc)
                   [] BitAnd(opcode, \h000F) = \hE -> ReturnFromSubroutine(m, oc)
                   [] OTHER -> [m EXCEPT !.pc = nnn] )
          [] family = \h1000 -> [m EXCEPT !.pc = nnn]
          [] family = \h2000 -> CallSubroutine(m, nnn, oc)
          [] family = \h3000 -> Skip(m, m.v[x] = nn, oc)
          [] family = \h4000 -> Skip(m, m.v[x] # nn, oc)
          [] family = \h5000 -> Skip(m, m.v[x] = m.v[y], oc)
          [] family = \h6000 -> AdvancePc([m EXCEPT !.v[x] = nn], 2, oc)
          [] family = \h7000 ->
               AdvancePc([m EXCEPT !.v[x] = BitAnd(m.v[x] + nn, \hFF)], 2, oc)
          [] family = \h8000 -> Arithmetic(m, x, y, vx, vy, n, oc)
          [] family = \h9000 -> Skip(m, m.v[x] # m.v[y], oc)
          [] family = \hA000 -> AdvancePc([m EXCEPT !.i = nnn], 2, oc)
          [] family = \hB000 ->
               IF nnn + m.v[0] >= U16 /\ oc THEN Panic(m, "overflow")
               ELSE [m EXCEPT !.pc = (nnn + m.v[0]) % U16]
          [] family = \hC000 -> AdvancePc([m EXCEPT !.v[x] = BitOr(r, nn)], 2, oc)
          [] family = \hD000 -> DrawSprite(m, vx, vy, n, oc)
          [] family = \hE000 -> KeySkip(m, vx, nn, oc)
          [] family = \hF000 -> Misc(m, x, nn, oc)
          [] OTHER -> Panic(m, "unknown opcode")

\* faulty variant: the timers tick in a cycle whose fetch was fatal
execute_cycle_TickOnFatal(m, r, oc) ==
    LET w == read_word(m.memory, m.pc)
    IN  IF w.panic # "none" THEN Panic(update_timers(m), w.panic)
        ELSE LET m1 == process_opcode(m, w.word, r, oc)
             IN  IF m1.panic # "none" THEN m1 ELSE update_timers(m1)

\* Chip8::execute_cycle
execute_cycle(m, r, oc) ==
    LET w == read_word(m.memory, m.pc)
    IN  IF w.panic # "none" THEN Panic(m, w.panic)
        ELSE LET m1 == process_opcode(m, w.word, r, oc)
             IN  IF m1.panic # "none" THEN m1 ELSE update_timers(m1)

\* ------------------------------------------------- the embedding program
\* process_input: whether run_loop goes on, and the machine
process_input(m, input) ==
    IF input = "none" THEN [continue |-> TRUE, m |-> m]
    ELSE IF input = ESC THEN [continue |-> FALSE, m |-> m]
    ELSE [continue |-> TRUE,
          m |-> [m EXCEPT !.key =
                   [k \in 0 .. KEYBOARD_ARRAY_SIZE - 1 |->
                      IF input = KEY_MAP[k + 1] THEN 1 ELSE m.key[k]]]]

\* the cells draw_graphics prints as '*'
Lit(gfx) == {p \in gfx : Cell(gfx, p) = 1}

\* the characters of the keypad keys 0 .. NumKeys-1, and one unmapped key
UserKeys == {KEY_MAP[k + 1] : k \in 0 .. NumKeys - 1} \cup {"p"}

\* the random bytes rand::random() is taken to return
RandomBytes == {0, \h0F, \hFF}

\* the bytes of a program of instruction words, high byte first
Image(words) ==
    [k \in 1 .. 2 * Len(words) |->
        IF k % 2 = 1 THEN words[(k + 1) \div 2] \div 256 ELSE words[k \div 2] % 256]

\* the programs of 1 .. len instruction words over ops
Programs(ops, len) == {Image(w) : w \in UNION {[1 .. n -> ops] : n \in 1 .. len}}

NoOpcode == 0 - 1
NoCall == [site |-> 0 - 1, sp |-> 0 - 1]

\* history: the machine as an execute_cycle call found it, the word it
\* fetched and the innermost call not yet returned from
Snapshot(m, opcode, open) ==
    [ opcode |-> opcode, pc |-> m.pc, sp |-> m.sp, i |-> m.i, v |-> m.v,
      gfx |-> m.gfx,
      delay_timer |-> m.delay_timer, sound_timer |-> m.sound_timer,
      open |-> open ]

\* the state main starts run_loop from is reached by LoadProgram
InitRoms(roms, keys, cycles) ==
    /\ chip8 = Chip8New
    /\ screen = {}
    /\ mainpc = "load"
    /\ iteration = 0
    /\ limit = cycles
    /\ rom \in roms
    /\ keyboard = keys
    /\ last = Snapshot(Chip8New, NoOpcode, NoCall)
    /\ calls = << >>
    /\ written = [delay |-> [val |-> 0, at |-> 0], sound |-> [val |-> 0, at |-> 0]]

InitWith(ops, len, keys, cycles) == InitRoms(Programs(ops, len), keys, cycles)

\* main: chip8.load_program(..).unwrap(), then run_loop
LoadProgram ==
    /\ mainpc = "load"
    /\ LET r == load_program(chip8, rom)
       IN  /\ chip8' = IF r.err THEN Panic(r.m, "unwrap on Err") ELSE r.m
           /\ mainpc' = "run"
    /\ UNCHANGED <<screen, iteration, limit, rom, keyboard, last, calls, written>>

\* the word execute_cycle fetches in this state, NoOpcode when the fetch panics
Fetched(m) ==
    LET w == read_word(m.memory, m.pc)
    IN  IF w.panic # "none" THEN NoOpcode ELSE w.word

\* the words process_opcode dispatches to its call and return handlers
IsCall(opcode) == opcode # NoOpcode /\ Family(opcode) = \h2000
IsReturn(opcode) ==
    opcode # NoOpcode /\ Family(opcode) = \h0000 /\ BitAnd(opcode, \h000F) = \hE
IsOp(opcode, family, nn) ==
    opcode # NoOpcode /\ Family(opcode) = family /\ DecodeNN(opcode) = nn
IsDraw(opcode) == opcode # NoOpcode /\ Family(opcode) = \hD000

\* run_loop: chip8.execute_cycle()
ExecuteCycle ==
    /\ mainpc = "run"
    /\ chip8.panic = "none"
    /\ iteration < limit
    /\ \E r \in (IF Family(Fetched(chip8) % U16) = \hC000 THEN RandomBytes ELSE {0}) :
          chip8' \in {execute_cycle(chip8, r, oc) : oc \in BOOLEAN}
    /\ LET opcode == Fetched(chip8)
           open == IF calls = << >> THEN NoCall ELSE calls[Len(calls)]
       IN  /\ last' = Snapshot(chip8, opcode, open)
           /\ calls' = IF chip8'.panic # "none" THEN calls
                       ELSE IF IsCall(opcode)
                            THEN Append(calls, [site |-> chip8.pc, sp |-> chip8.sp])
                       ELSE IF IsReturn(opcode) THEN SubSeq(calls, 1, Len(calls) - 1)
                       ELSE calls
           /\ written' =
                IF chip8'.panic # "none" THEN written
                ELSE IF IsOp(opcode, \hF000, \h15)
                     THEN [written EXCEPT !.delay =
                             [val |-> chip8.v[DecodeX(opcode)], at |-> iteration]]
                ELSE IF IsOp(opcode, \hF000, \h18)
                     THEN [written EXCEPT !.sound =
                             [val |-> chip8.v[DecodeX(opcode)], at |-> iteration]]
                ELSE written
    /\ iteration' = iteration + 1
    /\ UNCHANGED <<screen, mainpc, limit, rom, keyboard>>

\* run_loop: process_input(chip8, screen)
ProcessInput ==
    /\ mainpc = "run"
    /\ chip8.panic = "none"
    /\ \E input \in {"none", ESC} \cup keyboard :
          LET r == process_input(chip8, input)
          IN  /\ chip8' = r.m
              /\ mainpc' = IF r.continue THEN "run" ELSE "exit"
    /\ UNCHANGED <<screen, iteration, limit, rom, keyboard, last, calls, written>>

\* run_loop: if chip8.draw_flag { draw_graphics(..) }
DrawGraphics ==
    /\ mainpc = "run"
    /\ chip8.panic = "none"
    /\ chip8.draw_flag
    /\ chip8' = [chip8 EXCEPT !.draw_flag = FALSE]
    /\ screen' = Lit(chip8.gfx)
    /\ UNCHANGED <<mainpc, iteration, limit, rom, keyboard, last, calls, written>>

Next == LoadProgram \/ ExecuteCycle \/ ProcessInput \/ DrawGraphics

\* ------------------------------------------------------- specifications
\* Programs of jumps, calls and returns: calls to 0x202 and 0x204, return,
\* a jump to the odd address 0x201 and a jump to the last word of memory.
ControlOps == {\h2202, \h2204, \h00EE, \h1201, \h1FFE}
SpecControl == InitWith(ControlOps, MaxProgLen, {}, MaxIterations) /\ [][Next]_vars

\* Programs that set and read the timers: V0 = 3, delay = V0, sound = V0,
\* V0 = delay.
TimerOps == {\h6003, \hF015, \hF018, \hF007}
SpecTimers == InitWith(TimerOps, MaxProgLen, {}, MaxShortRun) /\ [][Next]_vars

\* Programs that wait for a key while a timer runs: V0 = 3, delay = V0,
\* V0 = the key awaited.
KeyOps == {\h6003, \hF015, \hF00A}
SpecKeys == InitWith(KeyOps, MaxProgLen, UserKeys, MaxShortRun) /\ [][Next]_vars
\* run_loop calls execute_cycle in every iteration: the steps that count an
\* iteration are the ExecuteCycle steps, enabled whenever CycleTick is
CycleTick ==
    /\ mainpc = "run"
    /\ chip8.panic = "none"
    /\ iteration < limit
    /\ iteration' = iteration + 1
FairSpecKeys == SpecKeys /\ WF_iteration(CycleTick)

\* Programs that draw: VA = 10, draw 5 rows at (VA, VA), I = 5 (the glyph
\* of 1), I = 0x300 (zero bytes), clear the screen.
DrawOps == {\h6A0A, \hDAA5, \hA005, \hA300, \h00E0}
SpecDraw == InitWith(DrawOps, MaxDrawLen, {}, MaxShortRun) /\ [][Next]_vars

\* ----------------------------------------------------------- the claims
Running == mainpc = "run" /\ chip8.panic = "none"
\* this step is an execute_cycle call
CycleStep == iteration' = iteration + 1

\* C1 (as claimed): while the machine runs, program_counter is even and lies
\* in [0, 4096): an instruction that would leave it odd or >= 4096 stops
\* the machine with a fatal condition instead.
C1_PcEvenAndInRange ==
    Running => (chip8.pc % 2 = 0 /\ chip8.pc \in 0 .. MEMORY_SIZE - 1)

\* C2: the stack pointer of a running machine is in 0 .. 16; a call made with
\* sp < 16 succeeds and increments sp, a call made with sp = 16 is fatal and
\* a return made with sp = 0 is fatal; a machine that met a fatal condition
\* executes nothing more (no later cycle finds it).
C2_StackPointerInRange ==
    /\ chip8.panic = "none" => chip8.sp \in 0 .. STACK_SIZE
    /\ (IsCall(last.opcode) /\ last.sp < STACK_SIZE)
          => (chip8.panic = "none" /\ chip8.sp = last.sp + 1)
    /\ (IsCall(last.opcode) /\ last.sp = STACK_SIZE) => chip8.panic # "none"
    /\ (last.opcode = \h00EE /\ last.sp = 0) => chip8.panic # "none"
    /\ chip8.panic # "none" => ~ENABLED ExecuteCycle

\* C2 witness: the 17th nested call was made and was fatal
C2_Witness ==
    IsCall(last.opcode) /\ last.sp = STACK_SIZE /\ chip8.panic # "none"

\* C3: a call executed at address a stores a at stack[sp], increments sp and
\* sets pc = nnn; the return that matches it (calls and returns nest: the
\* innermost open call is the one returned from) sets pc = a + 2 and sp to
\* its value before the call; the open calls are the stack entries below sp.
C3_CallReturnRoundTrip ==
    chip8.panic = "none" =>
        /\ IsCall(last.opcode) =>
              /\ chip8.stack[last.sp] = last.pc
              /\ chip8.sp = last.sp + 1
              /\ chip8.pc = DecodeNNN(last.opcode)
              /\ calls[Len(calls)] = [site |-> last.pc, sp |-> last.sp]
        /\ IsReturn(last.opcode) =>
              /\ chip8.pc = last.open.site + 2
              /\ chip8.sp = last.open.sp
        /\ Len(calls) = chip8.sp
        /\ \A k \in 1 .. Len(calls) :
              calls[k].sp = k - 1 /\ chip8.stack[k - 1] = calls[k].site

\* C3 witness: a return from a call nested in another call has been executed
C3_Witness ==
    /\ chip8.panic = "none"
    /\ last.opcode = \h00EE
    /\ last.sp = 2
    /\ chip8.sp = 1
    /\ chip8.pc = last.open.site + 2

\* ---- C4 .. C7: FX0A under SpecKeys / FairSpecKeys, the timers under SpecTimers
AtWait(m) == IsOp(Fetched(m), \hF000, \h0A)
NoKey(m) == \A k \in 0 .. KEYBOARD_ARRAY_SIZE - 1 : m.key[k] = 0
\* the addresses of the instruction words of a loaded program
ProgramSites == {LOWER_MEMORY_BOUNDARY + 2 * k : k \in 0 .. MaxProgLen - 1}

\* C4: an execute_cycle call made with pc at an FX0A leaves pc unchanged
\* while all 16 key latches are clear and advances pc by exactly 2 when a
\* latch is set; and (run_loop calling execute_cycle again and again) a wait
\* at address a with a latch set leads to pc leaving a, unless the user quits.
C4_WaitEndsOnKey ==
    /\ [][(CycleStep /\ AtWait(chip8)) =>
             /\ chip8'.panic = "none"
             /\ chip8'.pc = IF NoKey(chip8) THEN chip8.pc ELSE chip8.pc + 2]_vars
    /\ \A a \in ProgramSites :
          (Running /\ AtWait(chip8) /\ ~NoKey(chip8) /\ chip8.pc = a
             /\ iteration < limit)
          ~> (chip8.pc = a + 2 \/ mainpc = "exit")

\* C4 witness: the one-instruction program F00A waited for two cycles and
\* went on in the third, a latch having been set
C4_Witness ==
    /\ rom = Image(<<\hF00A>>)
    /\ iteration = 3
    /\ ~NoKey(chip8)
    /\ last.pc = LOWER_MEMORY_BOUNDARY
    /\ chip8.pc = LOWER_MEMORY_BOUNDARY + 2

\* C5 (as claimed): an execute_cycle call in which FX0A finds no latch set
\* changes nothing of the machine, the two timers included.
C5_WaitChangesNothing ==
    [][(CycleStep /\ AtWait(chip8) /\ NoKey(chip8)) => chip8' = chip8]_vars

\* the lowest index of a set key latch
LowestKey(m) ==
    CHOOSE k \in 0 .. KEYBOARD_ARRAY_SIZE - 1 :
        m.key[k] # 0 /\ \A j \in 0 .. k - 1 : m.key[j] = 0

\* C6 (as claimed): FX0A executed with a latch set stores the lowest index
\* of a set latch in V[x], advances pc by 2 and leaves the latches as they
\* were.
C6_LowestKeyStored ==
    [][(CycleStep /\ AtWait(chip8) /\ ~NoKey(chip8)) =>
          /\ chip8'.v[DecodeX(Fetched(chip8))] = LowestKey(chip8)
          /\ chip8'.pc = chip8.pc + 2
          /\ chip8'.key = chip8.key]_vars

Dec(t) == IF t > 0 THEN t - 1 ELSE 0
Max(a, b) == IF a > b THEN a ELSE b

\* C7: every execute_cycle call that returns decrements each timer by 1 if
\* it is nonzero and leaves a zero timer at zero, after the effect of the
\* opcode: FX07 reads the value before the tick, a value written by FX15 or
\* FX18 is ticked in the cycle that wrote it; so a timer is
\* max(t - k, 0), k cycles after t was written to it, and stays in 0 .. 255.
C7_TimersTickAfterOpcode ==
    chip8.panic = "none" =>
        LET op == last.opcode
            x  == DecodeX(op)
        IN  /\ chip8.delay_timer =
                  Dec(IF IsOp(op, \hF000, \h15) THEN last.v[x] ELSE last.delay_timer)
            /\ chip8.sound_timer =
                  Dec(IF IsOp(op, \hF000, \h18) THEN last.v[x] ELSE last.sound_timer)
            /\ IsOp(op, \hF000, \h07) => chip8.v[x] = last.delay_timer
            /\ chip8.delay_timer =
                  Max(written.delay.val - (iteration - written.delay.at), 0)
            /\ chip8.sound_timer =
                  Max(written.sound.val - (iteration - written.sound.at), 0)
            /\ chip8.delay_timer \in 0 .. U8 - 1
            /\ chip8.sound_timer \in 0 .. U8 - 1

\* C7 witness: FX15 wrote 3 to the delay timer, which reached 0 and then
\* stayed there for a further cycle
C7_Witness ==
    /\ written.delay.val = 3
    /\ iteration - written.delay.at > 3
    /\ last.delay_timer = 0
    /\ chip8.delay_timer = 0

\* ---- C8 .. C10: the display, under SpecDraw
\* C8: with draw_graphics run at any moment the draw flag is set (it copies
\* the display and clears the flag), the display equals the last copy in
\* every state where the flag is false; every execute_cycle call that
\* returns and changed a display cell, and every one that executed DXYN
\* (whether or not it drew a bit), leaves the flag set, and no
\* execute_cycle call clears the flag.
C8_FlagCoversDisplayChanges ==
    /\ []((chip8.panic = "none" /\ ~chip8.draw_flag) => screen = Lit(chip8.gfx))
    /\ [][CycleStep =>
             /\ chip8.draw_flag => chip8'.draw_flag
             /\ chip8'.panic = "none" =>
                   /\ chip8'.gfx # chip8.gfx => chip8'.draw_flag
                   /\ IsDraw(Fetched(chip8)) => chip8'.draw_flag
                   /\ Fetched(chip8) = \h00E0 => chip8'.draw_flag]_vars

\* C8 witness: a sprite was drawn and draw_graphics has rendered it
C8_Witness ==
    /\ IsDraw(last.opcode)
    /\ chip8.gfx # last.gfx
    /\ ~chip8.draw_flag
    /\ screen # {}
    /\ screen = Lit(chip8.gfx)

\* bit 7 - b of a byte
SpriteBit(byte, b) == (byte \div 2^(7 - b)) % 2
\* the cells the set bits of the n sprite bytes memory[i .. i + n) stand
\* for: bit 7 leftmost at column vx, row r at display row vy + r
SpriteCells(memory, i, vx, vy, n) ==
    { ((vy + r) % GRAPHICS_ROWS) * GRAPHICS_COLUMNS + ((vx + b) % GRAPHICS_COLUMNS) :
        <<r, b>> \in {rb \in (0 .. n - 1) \X (0 .. 7) :
                        SpriteBit(memory[i + rb[1]], rb[2]) = 1} }

\* C9: after a DXYN that returned, the display is the display before it
\* with exactly the cells of the sprite's set bits toggled, and VF is 1 if
\* one of those cells was 1 before and 0 otherwise, whatever VF was.
\* (memory is not written by DXYN, nor by the steps of run_loop between
\* execute_cycle calls.)
C9_DrawXorsSpriteBits ==
    (IsDraw(last.opcode) /\ chip8.panic = "none") =>
        LET cells == SpriteCells(chip8.memory, last.i,
                                 last.v[DecodeX(last.opcode)],
                                 last.v[DecodeY(last.opcode)],
                                 DecodeN(last.opcode))
        IN  /\ chip8.gfx = (last.gfx \ cells) \cup (cells \ last.gfx)
            /\ chip8.v[15] = IF cells \cap last.gfx # {} THEN 1 ELSE 0

\* C9 witness: a sprite drawn over a display that held some of its cells
\* and not others, VF being 1 before and after
C9_Witness ==
    /\ IsDraw(last.opcode)
    /\ chip8.panic = "none"
    /\ last.v[15] = 1
    /\ chip8.v[15] = 1
    /\ chip8.gfx \ last.gfx # {}
    /\ last.gfx \ chip8.gfx # {}

\* this execute_cycle call executes the DXYN that the call before it
\* executed, with the same I, V[x] and V[y]
SecondDraw ==
    /\ CycleStep
    /\ IsDraw(Fetched(chip8))
    /\ last.opcode = Fetched(chip8)
    /\ last.i = chip8.i
    /\ last.v[DecodeX(last.opcode)] = chip8.v[DecodeX(last.opcode)]
    /\ last.v[DecodeY(last.opcode)] = chip8.v[DecodeY(last.opcode)]
    /\ chip8'.panic = "none"

\* C10: the second of two successive draws of the same sprite at the same
\* position leaves the display as it was before the first; if the display
\* was clear before the first and the sprite has a set bit, VF is 0 after
\* the first and 1 after the second; the glyph of 0 (I = 0) drawn at
\* (10, 10) sets 14 cells, and none are set after the second draw.
C10_DoubleDrawRestores ==
    [][SecondDraw =>
          /\ chip8'.gfx = last.gfx
          /\ (last.gfx = {} /\ chip8.gfx # {}) =>
                (chip8.v[15] = 0 /\ chip8'.v[15] = 1)
          /\ (last.gfx = {} /\ last.i = 0 /\ last.opcode = \hDAA5
                /\ last.v[10] = 10) =>
                (Cardinality(chip8.gfx) = 14 /\ chip8'.gfx = {})]_vars

\* C10 witness: the glyph of 1 was drawn twice over the glyph of 0, which
\* is on the display again
C10_Witness ==
    /\ rom = Image(<<\hDAA5, \hA005, \hDAA5, \hDAA5>>)
    /\ iteration = 4
    /\ chip8.panic = "none"
    /\ last.gfx # chip8.gfx
    /\ Cardinality(chip8.gfx) = 14
    /\ chip8.v[15] = 1

\* ---- C11: sprites at the edges of the display, under SpecWrap
\* Programs VA = a; VB = b; draw n rows of the font (I = 0) at (VA, VB),
\* for columns and rows at and past the right and bottom edges.
EdgeColumns == {0, 60, 63, 255}
EdgeRows == {0, 30, 31, 255}
Heights == {0, 1, 5, 15}
WrapRoms ==
    {Image(<<\h6A00 + a, \h6B00 + b, \hDAB0 + n>>) :
        a \in EdgeColumns, b \in EdgeRows, n \in Heights}
SpecWrap == InitRoms(WrapRoms, {}, MaxShortRun) /\ [][Next]_vars

\* C11: a DXYN that returned has toggled, for each set bit b of row r of the
\* sprite, the cell at column (V[x] + b) mod 64 and row (V[y] + r) mod 32,
\* whose index is in [0, 2048); as many cells are toggled as the sprite has
\* set bits (none is dropped at an edge), and the display holds no cell
\* outside [0, 2048).
C11_DrawWrapsNeverClips ==
    (IsDraw(last.opcode) /\ chip8.panic = "none") =>
        LET vx   == last.v[DecodeX(last.opcode)]
            vy   == last.v[DecodeY(last.opcode)]
            bits == {rb \in (0 .. DecodeN(last.opcode) - 1) \X (0 .. 7) :
                        SpriteBit(chip8.memory[last.i + rb[1]], rb[2]) = 1}
            target(rb) == ((vy + rb[1]) % 32) * 64 + ((vx + rb[2]) % 64)
        IN  /\ \A rb \in bits :
                  /\ target(rb) \in 0 .. 2047
                  /\ (target(rb) \in chip8.gfx) # (target(rb) \in last.gfx)
            /\ Cardinality((chip8.gfx \ last.gfx) \cup (last.gfx \ chip8.gfx))
                  = Cardinality(bits)
            /\ chip8.gfx \subseteq 0 .. GRAPHICS_ARRAY_SIZE - 1

\* C11 witness: 15 rows drawn at (255, 31): cells in the last column of the
\* last row, and cells wrapped to the first columns of the first rows
C11_Witness ==
    /\ last.opcode = \hDABF
    /\ last.v[10] = 255
    /\ last.v[11] = 31
    /\ chip8.panic = "none"
    /\ 31 * 64 + 63 \in chip8.gfx
    /\ \E p \in chip8.gfx : p % 64 < 7 /\ p \div 64 < 14

\* ---- C12: the key skips, under SpecKeySkip
\* Programs of V0 = 1, skip if key V0 is set, skip if key V0 is not set.
KeySkipOps == {\h6001, \hE09E, \hE0A1}
SpecKeySkip == InitWith(KeySkipOps, MaxProgLen, UserKeys, MaxShortRun) /\ [][Next]_vars

\* C12: executed with V[x] in 0 .. 15, EX9E adds 4 to pc if key[V[x]] is set
\* and 2 otherwise, EXA1 adds 4 if key[V[x]] is clear and 2 otherwise; after
\* either key[V[x]] is clear and the other latches are as they were; and no
\* execute_cycle call sets a latch that was clear.
C12_KeySkipsConsume ==
    /\ [][(CycleStep /\ Family(Fetched(chip8)) = \hE000
             /\ DecodeNN(Fetched(chip8)) \in {\h9E, \hA1}
             /\ chip8.v[DecodeX(Fetched(chip8))] < KEYBOARD_ARRAY_SIZE) =>
            LET k     == chip8.v[DecodeX(Fetched(chip8))]
                isSet == chip8.key[k] # 0
                skip  == IF DecodeNN(Fetched(chip8)) = \h9E THEN isSet ELSE ~isSet
            IN  /\ chip8'.panic = "none"
                /\ chip8'.pc = chip8.pc + (IF skip THEN 4 ELSE 2)
                /\ chip8'.key = [chip8.key EXCEPT ![k] = 0]]_vars
    /\ [][CycleStep =>
            \A k \in 0 .. KEYBOARD_ARRAY_SIZE - 1 :
                chip8.key[k] = 0 => chip8'.key[k] = 0]_vars

\* C12 witness: with keys 0 and 1 set, EX9E on V0 = 1 skipped (pc + 4) and
\* consumed latch 1, latch 0 being still set
C12_Witness ==
    /\ last.opcode = \hE09E
    /\ last.v[0] = 1
    /\ chip8.pc = last.pc + 4
    /\ chip8.key[1] = 0
    /\ chip8.key[0] = 1

\* ---- C13: loading, under SpecLoad
\* Short programs of 00E0, 1200 and 6003, and the images of 0xFF bytes that
\* fill the memory above 0x200 exactly and that are one byte longer.
LoadOps == {\h00E0, \h1200, \h6003}
LongImages ==
    {[k \in 1 .. MEMORY_SIZE - LOWER_MEMORY_BOUNDARY + d |-> \hFF] : d \in {0, 1}}
SpecLoad ==
    InitRoms(Programs(LoadOps, MaxProgLen) \cup LongImages, {}, MaxShortRun)
       /\ [][Next]_vars

\* this step is main's load_program call
LoadStep == mainpc = "load" /\ mainpc' = "run"

\* C13: load_program succeeds iff the image has at most 4096 - 512 = 3584
\* bytes; on success byte i of the image is at memory[512 + i], and nothing
\* else of the machine has changed; on failure the error is returned (main
\* unwraps it) and every field of the machine, memory included, is as before.
C13_LoadFitsOrFails ==
    [][LoadStep =>
          IF Len(rom) <= 3584
          THEN /\ chip8'.panic = "none"
               /\ \A i \in 0 .. Len(rom) - 1 : chip8'.memory[512 + i] = rom[i + 1]
               /\ \A a \in 0 .. MEMORY_SIZE - 1 :
                     (a < 512 \/ a >= 512 + Len(rom)) =>
                        chip8'.memory[a] = chip8.memory[a]
               /\ [chip8' EXCEPT !.memory = chip8.memory] = chip8
          ELSE /\ chip8'.panic = "unwrap on Err"
               /\ [chip8' EXCEPT !.panic = "none"] = chip8]_vars

\* C13 witness: the image of exactly 3584 bytes is loaded, its last byte at
\* the last byte of memory
C13_Witness ==
    /\ Len(rom) = 3584
    /\ mainpc = "run"
    /\ iteration = 0
    /\ chip8.panic = "none"
    /\ chip8.memory[MEMORY_SIZE - 1] = \hFF
    /\ chip8.memory[LOWER_MEMORY_BOUNDARY - 1] = 0

\* ---- C14: a second load_program call, under SpecReload
\* load_program is a public method of Chip8: a caller other than main can
\* call it on a machine that has executed cycles.  Reload is such a call,
\* with a one-instruction image different from the one loaded.
ReloadOps == {\h6A0A, \hDAA5}
Reload ==
    /\ mainpc = "run"
    /\ chip8.panic = "none"
    /\ iteration > 0
    /\ \E p \in Programs(ReloadOps, 1) :
          /\ p # rom
          /\ rom' = p
          /\ chip8' = load_program(chip8, p).m
    /\ UNCHANGED <<screen, mainpc, iteration, limit, keyboard, last, calls, written>>
NextReload == Next \/ Reload
SpecReload == InitWith(ReloadOps, MaxProgLen, {}, MaxShortRun) /\ [][NextReload]_vars

\* this step is a load_program call made after at least one cycle
ReloadStep == mainpc = "run" /\ iteration > 0 /\ rom' # rom

\* C14 (as claimed): a load_program call made after an execute_cycle call is
\* either rejected (the machine is as before) or leaves the machine in its
\* initial state with the new image loaded.
C14_ReloadRejectedOrResets ==
    [][ReloadStep =>
          \/ chip8' = chip8
          \/ chip8' = load_program(Chip8New, rom').m]_vars

\* ---- C15, C17: decoding, under SpecDecode
\* Programs of words outside the opcode table (5011, 9011, 8128, E19F,
\* F1FF), words of family 0 (0230, 012E, 00E0) and a call (2202).
DecodeOps ==
    {\h5011, \h9011, \h8128, \hE19F, \hF1FF, \h0230, \h012E, \h00E0, \h2202}
SpecDecode == InitWith(DecodeOps, MaxProgLen, {}, MaxShortRun) /\ [][Next]_vars

\* the instruction words of the opcode table
InTable(opcode) ==
    LET f  == opcode \div 4096
        n  == opcode % 16
        nn == opcode % 256
    IN  CASE f \in {5, 9} -> n = 0
          [] f = 8  -> n \in (0 .. 7) \cup {14}
          [] f = 14 -> nn \in {\h9E, \hA1}
          [] f = 15 -> nn \in {\h07, \h0A, \h15, \h18, \h1E, \h29, \h33, \h55, \h65}
          [] OTHER  -> TRUE

\* C15 (as claimed): a fetched word that is in no row of the opcode table
\* stops the machine.
C15_UnknownOpcodeFatal ==
    (last.opcode # NoOpcode /\ ~InTable(last.opcode)) => chip8.panic # "none"

\* C17 (as claimed): of the words of family 0 only 00E0 clears the display
\* (draw flag set, pc + 2) and only 00EE returns; every other word 0NNN
\* sets pc = nnn and leaves display, draw flag, stack and sp as they were.
C17_FamilyZeroExactWords ==
    [][(CycleStep /\ Fetched(chip8) # NoOpcode /\ Fetched(chip8) < \h1000) =>
          CASE Fetched(chip8) = \h00E0 ->
                  /\ chip8'.gfx = {}
                  /\ chip8'.draw_flag
                  /\ chip8'.pc = chip8.pc + 2
            [] Fetched(chip8) = \h00EE ->
                  \/ chip8'.panic # "none"
                  \/ /\ chip8'.sp = chip8.sp - 1
                     /\ chip8'.pc = chip8.stack[chip8.sp - 1] + 2
            [] OTHER ->
                  /\ chip8'.panic = "none"
                  /\ chip8'.pc = Fetched(chip8)
                  /\ chip8'.gfx = chip8.gfx
                  /\ chip8'.draw_flag = chip8.draw_flag
                  /\ chip8'.stack = chip8.stack
                  /\ chip8'.sp = chip8.sp]_vars

\* ---- C16: the fetch, under SpecFetch
\* Programs of V2 = 0xBC, V1 = V2, delay = V2, a jump to the last byte of
\* memory and a jump to its last word.
FetchOps == {\h62BC, \h8120, \hF215, \h1FFF, \h1FFE}
SpecFetch == InitWith(FetchOps, MaxProgLen, {}, MaxShortRun) /\ [][Next]_vars

\* C16: a cycle with pc + 1 >= 4096 is fatal and changes nothing of the
\* machine (no opcode effect, no timer tick); any other cycle fetches the
\* word memory[pc] * 256 + memory[pc + 1], from which x, y, n, nn and nnn are
\* the digits the instruction then uses (6XNN: V[x] = nn, 8XY0: V[x] = V[y],
\* 1NNN: pc = nnn).
C16_FetchBigEndianOrFatal ==
    [][CycleStep =>
          IF chip8.pc + 1 >= 4096
          THEN /\ chip8'.panic # "none"
               /\ last'.opcode = NoOpcode
               /\ [chip8' EXCEPT !.panic = "none"] = chip8
          ELSE LET w == chip8.memory[chip8.pc] * 256 + chip8.memory[chip8.pc + 1]
                   x == (w \div 256) % 16
                   y == (w \div 16) % 16
               IN  /\ last'.opcode = w
                   /\ DecodeX(w) = x
                   /\ DecodeY(w) = y
                   /\ DecodeN(w) = w % 16
                   /\ DecodeNN(w) = w % 256
                   /\ DecodeNNN(w) = w % 4096
                   /\ w \div 4096 = 6 => chip8'.v[x] = w % 256
                   /\ (w \div 4096 = 8 /\ w % 16 = 0) => chip8'.v[x] = chip8.v[y]
                   /\ w \div 4096 = 1 => chip8'.pc = w % 4096]_vars

\* C16 witness: the fetch at pc = 4095 was fatal while the delay timer was
\* running, and the timer is as it was
C16_Witness ==
    /\ iteration > 0
    /\ last.opcode = NoOpcode
    /\ chip8.panic # "none"
    /\ chip8.pc = MEMORY_SIZE - 1
    /\ chip8.delay_timer > 0
    /\ chip8.delay_timer = last.delay_timer

\* ---- C18 .. C20: additions and subtractions, under SpecArith
\* Programs V1 = a; V2 = b followed by one or two of V1 += V2, V1 -= V2,
\* V1 = V2 - V1, V1 += 0xFF.
Operands == {0, 1, \hBA, \hCC, \hFF}
ArithOps == {\h8124, \h8125, \h8127, \h71FF}
ArithRoms ==
    {Image(<<\h6100 + a, \h6200 + b>> \o w) :
        a \in Operands, b \in Operands,
        w \in UNION {[1 .. k -> ArithOps] : k \in 1 .. MaxArithLen}}
SpecArith == InitRoms(ArithRoms, {}, MaxShortRun) /\ [][Next]_vars

\* C18 (as claimed): 8XY5 leaves V[x] = (V[x] - V[y]) mod 256 and 8XY7
\* leaves V[x] = (V[y] - V[x]) mod 256, and neither is fatal.
C18_SubtractionWraps ==
    LET a == last.v[1]
        b == last.v[2]
    IN  /\ last.opcode = \h8125 =>
              (chip8.panic = "none" /\ chip8.v[1] = (a - b + 256) % 256)
        /\ last.opcode = \h8127 =>
              (chip8.panic = "none" /\ chip8.v[1] = (b - a + 256) % 256)

\* C19: 8XY5 leaves VF = 1 if V[x] >= V[y] and 0 otherwise, 8XY7 leaves
\* VF = 1 if V[y] >= V[x] and 0 otherwise (x, y # F); equal operands give 1.
C19_NoBorrowFlag ==
    LET a == last.v[1]
        b == last.v[2]
    IN  /\ last.opcode = \h8125 =>
              (chip8.panic = "none" /\ chip8.v[15] = IF a >= b THEN 1 ELSE 0)
        /\ last.opcode = \h8127 =>
              (chip8.panic = "none" /\ chip8.v[15] = IF b >= a THEN 1 ELSE 0)

\* C19 witness: 8XY5 executed with equal nonzero operands, VF being 0
\* before and 1 after
C19_Witness ==
    /\ last.opcode = \h8125
    /\ last.v[1] = last.v[2]
    /\ last.v[1] > 0
    /\ last.v[15] = 0
    /\ chip8.v[15] = 1

\* C20: 6XNN sets V[x] = nn; 7XNN sets V[x] = (V[x] + nn) mod 256 and leaves
\* VF as it was; 8XY4 sets V[x] = (V[x] + V[y]) mod 256 and VF = 1 if the
\* sum exceeds 255, else 0 (x, y # F); none of them is fatal.
C20_AdditionWraps ==
    (last.opcode # NoOpcode /\ last.opcode \div 4096 \in {6, 7, 8}
        /\ last.opcode % 16 \in (IF last.opcode \div 4096 = 8 THEN {4} ELSE 0 .. 15)) =>
        LET f  == last.opcode \div 4096
            x  == (last.opcode \div 256) % 16
            y  == (last.opcode \div 16) % 16
            nn == last.opcode % 256
        IN  /\ chip8.panic = "none"
            /\ f = 6 => chip8.v[x] = nn
            /\ f = 7 => /\ chip8.v[x] = (last.v[x] + nn) % 256
                        /\ chip8.v[15] = last.v[15]
            /\ f = 8 => /\ chip8.v[x] = (last.v[x] + last.v[y]) % 256
                        /\ chip8.v[15] = IF last.v[x] + last.v[y] > 255 THEN 1 ELSE 0

\* C20 witness: 7XNN wrapped past 255 with VF = 1 (left by a carry of 8XY4)
\* before and after
C20_Witness ==
    /\ last.opcode = \h71FF
    /\ last.v[15] = 1
    /\ chip8.v[15] = 1
    /\ last.v[1] > 0
    /\ chip8.v[1] = last.v[1] - 1

\* ---- C21: the shifts, under SpecShift
\* Programs V1 = a; V2 = 0xCC followed by one or two of V1 >>= 1, V1 <<= 1.
ShiftOperands == {0, 1, \h7F, \h80, \hAA, \hFF}
ShiftOps == {\h8126, \h812E}
ShiftRoms ==
    {Image(<<\h6100 + a, \h62CC>> \o w) :
        a \in ShiftOperands,
        w \in UNION {[1 .. k -> ShiftOps] : k \in 1 .. MaxArithLen}}
SpecShift == InitRoms(ShiftRoms, {}, MaxShortRun) /\ [][Next]_vars

\* C21: with V[x] = a, 8XY6 leaves VF = a mod 2 and V[x] = a div 2, 8XYE
\* leaves VF = a div 128 and V[x] = 2a mod 256; the results depend on a only
\* and V[y] is as it was.
C21_ShiftsUseVxOnly ==
    last.opcode \in ShiftOps =>
        LET a == last.v[1]
        IN  /\ chip8.panic = "none"
            /\ chip8.v[2] = last.v[2]
            /\ last.opcode = \h8126 =>
                  (chip8.v[15] = a % 2 /\ chip8.v[1] = a \div 2)
            /\ last.opcode = \h812E =>
                  (chip8.v[15] = a \div 128 /\ chip8.v[1] = (2 * a) % 256)

\* C21 witness: 0xAA shifted right, with V2 = 0xCC, gives 0x55 and VF = 0
C21_Witness ==
    /\ last.opcode = \h8126
    /\ last.v[1] = \hAA
    /\ last.v[2] = \hCC
    /\ chip8.v[1] = \h55
    /\ chip8.v[15] = 0

\* ---- C22: the random instruction, under SpecRandom
RandomOps == {\hC000, \hC10F, \hC2FF}
SpecRandom == InitWith(RandomOps, MaxProgLen, {}, MaxShortRun) /\ [][Next]_vars

\* C22: after CXNN, V[x] has no bit set that is clear in nn, so CX00 leaves 0
C22_RandomMaskedByNn ==
    Family(last.opcode) = \hC000 =>
        /\ chip8.panic = "none"
        /\ BitAnd(chip8.v[DecodeX(last.opcode)], DecodeNN(last.opcode))
              = chip8.v[DecodeX(last.opcode)]
        /\ DecodeNN(last.opcode) = 0 => chip8.v[DecodeX(last.opcode)] = 0

\* ---- C23, C24, C25: the font, under SpecFont
\* Programs V1 = k; I = sprite_addr[V1], for every digit and three larger bytes.
FontOperands == (0 .. 15) \cup {\h33, \h34, \hFF}
FontRoms == {Image(<<\h6100 + k, \hF129>>) : k \in FontOperands}
SpecFont == InitRoms(FontRoms, {}, MaxShortRun) /\ [][Next]_vars

\* C23: FX29 sets the index to V[x] * 5 for every byte V[x] and is never fatal
C23_FontAddressTimesFive ==
    last.opcode = \hF129 =>
        /\ chip8.panic = "none"
        /\ chip8.i = last.v[1] * 5

\* C24: on a fresh machine FX29 with V[x] = k, a digit, leaves the index at
\* the five rows of glyph k of the 80-byte font
C24_FontGlyphComplete ==
    (last.opcode = \hF129 /\ last.v[1] \in 0 .. 15) =>
        /\ chip8.panic = "none"
        /\ \A j \in 0 .. 4 :
              chip8.memory[chip8.i + j] = CHIP8_FONTSET[5 * last.v[1] + j + 1]

\* C25: the constructed machine has pc = 0x200, everything else zero, and the
\* 80 font bytes at 0x050 .. 0x09F with zero below and above
C25_FreshMachine ==
    mainpc = "load" =>
        /\ chip8.pc = \h200
        /\ chip8.sp = 0
        /\ chip8.i = 0
        /\ chip8.delay_timer = 0
        /\ chip8.sound_timer = 0
        /\ \A r \in 0 .. REGISTERS - 1 : chip8.v[r] = 0
        /\ \A k \in 0 .. KEYBOARD_ARRAY_SIZE - 1 : chip8.key[k] = 0
        /\ chip8.gfx = BlankDisplay
        /\ \A a \in 0 .. MEMORY_SIZE - 1 :
              chip8.memory[a] = IF a >= \h50 /\ a < \hA0
                                THEN CHIP8_FONTSET[a - \h50 + 1] ELSE 0

\* ---- C26: adding to the index, under SpecIndex
\* Programs V0 = a; I = nnn; I += V0, then either a jump back to the addition
\* at 0x204 or a clear screen.
IndexRoms ==
    {Image(<<\h6000 + a, \hA000 + nnn, \hF01E, w>>) :
        a \in {0, 1, \hFF}, nnn \in {0, \hFFF}, w \in {\h1204, \h00E0}}
SpecIndex == InitRoms(IndexRoms, {}, MaxLongRun) /\ [][Next]_vars

\* C26: FX1E sets VF = 1 when index + V[x] > 0xFFF and 0 otherwise, sets the
\* index to index + V[x], and is never fatal however often it is repeated
C26_AddToIndexNeverFatal ==
    last.opcode = \hF01E =>
        /\ chip8.panic = "none"
        /\ chip8.v[15] = (IF last.i + last.v[0] > \hFFF THEN 1 ELSE 0)
        /\ chip8.i = last.i + last.v[0]

\* ---- C27: binary-coded decimal, under SpecBcd
\* Programs V1 = a; I = nnn; store the digits of V1 at I.
BcdOperands == {0, 7, 99, 100, \hBA, \hFF}
BcdIndexes == {\h300, \hFFD, \hFFE}
BcdRoms ==
    {Image(<<\h6100 + a, \hA000 + nnn, \hF133>>) :
        a \in BcdOperands, nnn \in BcdIndexes}
SpecBcd == InitRoms(BcdRoms, {}, MaxShortRun) /\ [][Next]_vars

\* C27: with V[x] = a and index <= 4093, FX33 writes a div 100,
\* (a div 10) mod 10 and a mod 10 at memory[index .. index + 2] and changes
\* nothing else but pc
C27_BcdWritesThreeDigits ==
    [][(CycleStep /\ Fetched(chip8) = \hF133 /\ chip8.i <= 4093) =>
          LET a == chip8.v[1]
              i == chip8.i
          IN  chip8' = [chip8 EXCEPT
                           !.memory = [@ EXCEPT ![i] = a \div 100,
                                                ![i + 1] = (a \div 10) % 10,
                                                ![i + 2] = a % 10],
                           !.pc = @ + 2]]_vars

\* C27 witness: 186 stored as 1, 8, 6 in the last three cells of memory
C27_Witness ==
    /\ last.opcode = \hF133
    /\ last.v[1] = \hBA
    /\ last.i = \hFFD
    /\ chip8.memory[4093] = 1
    /\ chip8.memory[4094] = 8
    /\ chip8.memory[4095] = 6
    /\ chip8.panic = "none"

\* ---- C28: register store and load, under SpecRegs
\* Programs V0..V3 = 0x11, 0x22, 0x33, 0x44; I = 0x300; store with operand x;
\* V0..V3 = 0xEE, 0xDD, 0xCC, 0xBB; load with operand x.
RegCounts == 0 .. 3
RegRoms ==
    {Image(<<\h6011, \h6122, \h6233, \h6344, \hA300, \hF055 + x * 256,
             \h60EE, \h61DD, \h62CC, \h63BB, \hF065 + x * 256>>) :
        x \in RegCounts}
SpecRegs == InitRoms(RegRoms, {}, MaxIterations) /\ [][Next]_vars

SkipOperands == {0, \hBA, \hCC}
SkipOps == {\h31BA, \h41BA, \h5120, \h9120}
SkipRoms ==
    {Image(<<\h6100 + a, \h6200 + b, w>>) :
        a \in SkipOperands, b \in SkipOperands, w \in SkipOps}
SpecSkip == InitRoms(SkipRoms, {}, MaxShortRun) /\ [][Next]_vars

\* the condition of a skip instruction in machine m
SkipCondition(m, opcode) ==
    LET vx == m.v[DecodeX(opcode)]
        vy == m.v[DecodeY(opcode)]
    IN  CASE Family(opcode) = \h3000 -> vx = DecodeNN(opcode)
          [] Family(opcode) = \h4000 -> vx # DecodeNN(opcode)
          [] Family(opcode) = \h5000 -> vx = vy
          [] Family(opcode) = \h9000 -> vx # vy

\* C29: 3XNN, 4XNN, 5XY0 and 9XY0 advance pc by 4 when their condition holds
\* and by 2 otherwise, and change nothing else
C29_SkipsChangeOnlyPc ==
    [][(CycleStep /\ Fetched(chip8) \in SkipOps) =>
          chip8' = [chip8 EXCEPT
                       !.pc = @ + (IF SkipCondition(chip8, Fetched(chip8))
                                   THEN 4 ELSE 2)]]_vars

\* C29 witness: the register comparison 5XY0 on equal registers skips
C29_Witness ==
    /\ last.opcode = \h5120
    /\ last.v[1] = \hBA
    /\ last.v[2] = \hBA
    /\ chip8.pc = last.pc + 4
    /\ chip8.panic = "none"

\* ---- C30: addresses at the end of memory, under SpecBounds
\* Programs that set I = nnn and then store digits, store registers, load
\* registers, or store a sprite row and draw two rows from I.
BoundIndexes == {\h300, \hFFE, \hFFF}
BoundRoms ==
    UNION {{Image(<<\h61BA, \hA000 + nnn, \hF133>>),
            Image(<<\h6011, \h6122, \hA000 + nnn, \hF255>>),
            Image(<<\h6011, \h6122, \hA000 + nnn, \hF265>>),
            Image(<<\h60FF, \hA000 + nnn, \hF155, \hD122>>)} :
           nnn \in BoundIndexes}
SpecBounds == InitRoms(BoundRoms, {}, MaxShortRun) /\ [][Next]_vars

\* the instruction would touch an address of 4096 or more
TouchesBeyondMemory(m, opcode) ==
    /\ opcode # NoOpcode
    /\ \/ IsOp(opcode, \hF000, \h33) /\ m.i + 2 >= MEMORY_SIZE
       \/ /\ IsOp(opcode, \hF000, \h55) \/ IsOp(opcode, \hF000, \h65)
          /\ DecodeX(opcode) >= 1
          /\ m.i + DecodeX(opcode) - 1 >= MEMORY_SIZE
       \/ /\ IsDraw(opcode)
          /\ DecodeN(opcode) >= 1
          /\ m.i + DecodeN(opcode) - 1 >= MEMORY_SIZE

\* C30: FX33, FX55, FX65 and DXYN that would touch an address of 4096 or more
\* are fatal and have written no memory cell, register or display cell
C30_OutOfRangeWritesNothing ==
    [][(CycleStep /\ TouchesBeyondMemory(chip8, Fetched(chip8))) =>
          /\ chip8'.panic # "none"
          /\ chip8'.memory = chip8.memory
          /\ chip8'.v = chip8.v
          /\ chip8'.gfx = chip8.gfx]_vars

\* ---- C31: key skips on a register that names no key, under SpecKeyRange
\* Programs V1 = k; skip if key V1 is pressed, or if it is not.
KeyRangeOperands == {0, 1, 15, 16, \hFF}
KeyRangeOps == {\hE19E, \hE1A1}
KeyRangeRoms ==
    {Image(<<\h6100 + k, w>>) : k \in KeyRangeOperands, w \in KeyRangeOps}
SpecKeyRange ==
    InitRoms(KeyRangeRoms, UserKeys, MaxShortRun) /\ [][Next]_vars

\* C31: EX9E and EXA1 with V[x] > 15 are not fatal and treat the key as not
\* pressed: EX9E advances pc by 2, EXA1 by 4, and no latch changes
C31_KeySkipAnyRegisterValue ==
    [][(CycleStep /\ Fetched(chip8) \in KeyRangeOps /\ chip8.v[1] > 15) =>
          /\ chip8'.panic = "none"
          /\ chip8'.key = chip8.key
          /\ chip8'.pc = chip8.pc + (IF Fetched(chip8) = \hE19E THEN 2 ELSE 4)]_vars

\* ---- C32: VF as an operand of the flag-writing instructions, under SpecFlagOperand
\* Programs V1 = a; VF = b; then V1 += VF, V1 -= VF, V1 = VF - V1, or a
\* shift of VF itself.
FlagOperandsX == {1, \hFF}
FlagOperandsF == {0, 1, 5, \hC0}
FlagOps == {\h81F4, \h81F5, \h81F7, \h8F16, \h8F1E}
FlagRoms ==
    {Image(<<\h6100 + a, \h6F00 + b, w>>) :
        a \in FlagOperandsX, b \in FlagOperandsF, w \in FlagOps}
SpecFlagOperand == InitRoms(FlagRoms, {}, MaxShortRun) /\ [][Next]_vars

\* C32: with VF as an operand, the result and the flag are those of the
\* register values before the instruction: with y = 0xF the sum or difference
\* of V[x] and the old VF (differences taken where there is no borrow), and
\* with x = 0xF, where result and flag share VF, one of the two computed from
\* the old VF
C32_FlagOperandsReadBeforeWrite ==
    last.opcode \in FlagOps =>
        LET a == last.v[1]
            f == last.v[15]
        IN  /\ chip8.panic = "none"
            /\ last.opcode = \h81F4 =>
                  /\ chip8.v[1] = (a + f) % 256
                  /\ chip8.v[15] = (IF a + f > 255 THEN 1 ELSE 0)
            /\ (last.opcode = \h81F5 /\ a >= f) =>
                  (chip8.v[1] = a - f /\ chip8.v[15] = 1)
            /\ (last.opcode = \h81F7 /\ f >= a) =>
                  (chip8.v[1] = f - a /\ chip8.v[15] = 1)
            /\ last.opcode = \h8F16 => chip8.v[15] \in {f % 2, f \div 2}
            /\ last.opcode = \h8F1E => chip8.v[15] \in {f \div 128, (2 * f) % 256}

====
